---- MODULE Spec2Model ----
(***************************************************************************)
(* State-machine model of the LawyerPortal client pages:                   *)
(*   - the intake map page (src/unnamed/part_000): map load protocol,      *)
(*     coloring, labels, tooltip, teardown and order submission;           *)
(*   - the settings tabs (src/unnamed/part_002 "expertise" and             *)
(*     src/src/pages/settings/capacity.vue) over the shared profile draft; *)
(*   - the retainers page (src/unnamed/part_003): the role-scoped load.    *)
(* Strings that the code trims / upper-cases are sequences of one-letter   *)
(* strings; JavaScript numbers are records (see Num).                      *)
(***************************************************************************)
EXTENDS Integers, Sequences, FiniteSets, TLC

VARIABLES
  \* ---- intake map page -------------------------------------------------
  phase,           \* component lifecycle: "setup" | "mounted" | "unmounted"
  mapRoot,         \* template ref mapRoot is non-null
  runPc,           \* position of onMounted's run(): "init" | "fetching" | "done" | "rejected"
  fetched,         \* how fetch(US_SVG_URL) settled: "pending" | "ok" | "status" | "network"
  storage,         \* localStorage works: [readOk, writeOk] (getItem / setItem do not throw)
  cache,           \* localStorage[US_SVG_CACHE_KEY]: NoItem or a document text
  innerHTML,       \* document text injected into the map container (NoDoc if none)
  listeners,       \* event listeners attached to the injected document's elements
  style,           \* per-shape inline style of the injected document
  labelGroups,     \* the #state-labels groups of the injected document, in order
  tooltip,         \* [open, x, y, state]; state is an index into mockStates, 0 = null
  selectedStatus,  \* 'all' | StateStatus
  mockStates,      \* the Region list
  orders,          \* the order list, newest first
  orderForm,       \* the creation form's fields
  createOrderOpen, \* the creation form is shown
  mapError,        \* run() ended in an unhandled rejection
  layout,          \* browser layout: container rect [cw, ch], tooltip box [w, h]
  \* ---- settings tabs over the shared profile draft ----------------------
  route,           \* the page shown: "expertise" | "capacity" | "elsewhere"
  userId,          \* auth.state.value.user?.id ?? ''
  backend,         \* the persisted profile record of the owner
  baseline,        \* attorneyProfile.state: the last loaded / committed values
  draft,           \* attorneyProfile.draft: the working copy the forms bind
  isEditing,       \* attorneyProfile.isEditing
  saving,          \* the shown tab's saving flag
  inflight,        \* commitEditing calls awaiting the backend
  authPending,     \* onMounted handlers awaiting auth.init()
  loadPending,     \* onMounted handlers awaiting loadProfile()
  unsavedOpen,     \* the shown tab's unsaved-changes prompt is open
  pendingNav,      \* the shown tab's pendingNav: NoNav or the destination
  toast,           \* the last notification added: "none" | "success" | "error"
  \* ---- retainers page ---------------------------------------------------
  role,            \* auth.state.value.profile?.role (NoRole if absent)
  db,              \* the backend rows the center lookups read: [centerId, leadVendor]
  rtMounted,       \* the retainers page has been mounted
  loading,         \* the page's loading flag
  error,           \* the page's error message, NoError = null
  rows,            \* the loaded rows (ids of daily_deal_flow records), newest first
  loads            \* load() calls awaiting a promise: [pc, filter]

mapVars == <<phase, mapRoot, runPc, fetched, storage, cache, innerHTML, listeners, style,
             labelGroups, tooltip, selectedStatus, mapError, layout>>
orderVars == <<mockStates, orders, orderForm, createOrderOpen>>
profileVars == <<route, userId, backend, baseline, draft, isEditing, saving,
                 inflight, authPending, loadPending, unsavedOpen, pendingNav,
                 toast>>
pageVars == <<mapVars, orderVars>>
retainerVars == <<role, db, rtMounted, loading, error, rows, loads>>
vars == <<mapVars, orderVars, profileVars, retainerVars>>

\* ------------------------------------------------------------------------
\* Strings
\* ------------------------------------------------------------------------
LowerLetters == <<"a","b","c","d","e","f","g","h","i","j","k","l","m",
                  "n","o","p","q","r","s","t","u","v","w","x","y","z">>
UpperLetters == <<"A","B","C","D","E","F","G","H","I","J","K","L","M",
                  "N","O","P","Q","R","S","T","U","V","W","X","Y","Z">>
WhiteSpace == {" ", "\t"}

\* String.prototype.toUpperCase on one character
UpperChar(c) ==
  IF \E i \in 1..Len(LowerLetters) : LowerLetters[i] = c
    THEN UpperLetters[CHOOSE i \in 1..Len(LowerLetters) : LowerLetters[i] = c]
    ELSE c

ToUpperCase(s) == [i \in 1..Len(s) |-> UpperChar(s[i])]

RECURSIVE TrimStart(_)
TrimStart(s) ==
  IF s # <<>> /\ Head(s) \in WhiteSpace THEN TrimStart(Tail(s)) ELSE s

RECURSIVE TrimEnd(_)
TrimEnd(s) ==
  IF s # <<>> /\ s[Len(s)] \in WhiteSpace
    THEN TrimEnd(SubSeq(s, 1, Len(s) - 1))
    ELSE s

\* String.prototype.trim
Trim(s) == TrimEnd(TrimStart(s))

CA == <<"C","A">>
TX == <<"T","X">>
FL == <<"F","L">>
NY == <<"N","Y">>
PA == <<"P","A">>
IL == <<"I","L">>
OH == <<"O","H">>
GA == <<"G","A">>
NC == <<"N","C">>
MI == <<"M","I">>
WA == <<"W","A">>
AZ == <<"A","Z">>
MA == <<"M","A">>
TN == <<"T","N">>
CO == <<"C","O">>
OR == <<"O","R">>
NV == <<"N","V">>
VA == <<"V","A">>
MN == <<"M","N">>
WI == <<"W","I">>
AK == <<"A","K">>

\* ------------------------------------------------------------------------
\* Region data
\* ------------------------------------------------------------------------
StateIntake(c, n, cur, tgt, s30, st, ful, pen) ==
  [code |-> c, name |-> n, currentVolume |-> cur, targetVolume |-> tgt,
   salesNext30Days |-> s30, status |-> st, fulfilled |-> ful, pending |-> pen]

InitialMockStates == <<
  StateIntake(CA, "California", 45, 50, 5, "active", 40, 5),
  StateIntake(TX, "Texas", 38, 40, 4, "active", 35, 3),
  StateIntake(FL, "Florida", 22, 30, 3, "low", 20, 2),
  StateIntake(NY, "New York", 35, 40, 5, "active", 32, 3),
  StateIntake(PA, "Pennsylvania", 18, 25, 2, "low", 16, 2),
  StateIntake(IL, "Illinois", 28, 30, 3, "active", 25, 3),
  StateIntake(OH, "Ohio", 15, 20, 2, "low", 13, 2),
  StateIntake(GA, "Georgia", 20, 25, 3, "low", 18, 2),
  StateIntake(NC, "North Carolina", 12, 15, 1, "low", 11, 1),
  StateIntake(MI, "Michigan", 8, 15, 1, "low", 7, 1),
  StateIntake(WA, "Washington", 25, 30, 4, "active", 22, 3),
  StateIntake(AZ, "Arizona", 16, 20, 2, "low", 14, 2),
  StateIntake(MA, "Massachusetts", 19, 25, 3, "low", 17, 2),
  StateIntake(TN, "Tennessee", 10, 15, 1, "low", 9, 1),
  StateIntake(CO, "Colorado", 14, 20, 2, "low", 12, 2),
  StateIntake(OR, "Oregon", 11, 15, 1, "low", 10, 1),
  StateIntake(NV, "Nevada", 9, 12, 1, "low", 8, 1),
  StateIntake(VA, "Virginia", 13, 18, 2, "low", 11, 2),
  StateIntake(MN, "Minnesota", 7, 12, 1, "low", 6, 1),
  StateIntake(WI, "Wisconsin", 6, 10, 1, "low", 5, 1) >>

StatusFilters == {"all", "active", "low", "inactive"}

\* filteredStates: the indices of the regions of `states` shown under `filter`
filteredStates(states, filter) ==
  IF filter = "all"
    THEN {i \in 1..Len(states) : TRUE}
    ELSE {i \in 1..Len(states) : states[i].status = filter}

\* stateByCode.get(code): Map.set keeps the last entry of a code; 0 = undefined
stateByCode(states, code) ==
  LET hits == {i \in 1..Len(states) : states[i].code = code}
  IN IF hits = {} THEN 0 ELSE CHOOSE i \in hits : \A j \in hits : j <= i

\* states.reduce((sum, s) => sum + s[field], 0)
ReduceSum(states, field) ==
  LET acc[i \in 0..Len(states)] ==
        IF i = 0 THEN 0 ELSE acc[i - 1] + states[i][field]
  IN acc[Len(states)]

\* the page totals
totalVolume == ReduceSum(mockStates, "currentVolume")
totalFulfilled == ReduceSum(mockStates, "fulfilled")
totalPending == ReduceSum(mockStates, "pending")

getStatusColor(status) ==
  IF status = "active" THEN "#22c55e"
  ELSE IF status = "low" THEN "#eab308"
  ELSE "#ef4444"

\* ------------------------------------------------------------------------
\* Documents
\* ------------------------------------------------------------------------
NoItem == "null"          \* localStorage.getItem of an absent key
NoDoc == ""               \* empty container / empty text
RemoteSvg == "remote-us.svg"
CachedSvg == "cached-us.svg"
usSvgFallbackRaw == "bundled-us.svg"
SvgTexts == {RemoteSvg, CachedSvg, usSvgFallbackRaw}

\* the path[data-id] elements of a map document: data-id and id attributes
DocShapes(doc) ==
  IF doc \in SvgTexts
    THEN << [dataId |-> CA, id |-> CA],
            [dataId |-> FL, id |-> FL],
            [dataId |-> AK, id |-> AK],
            [dataId |-> <<>>, id |-> TX],
            [dataId |-> <<>>, id |-> <<>>] >>
    ELSE <<>>

\* root.querySelector('svg') finds an element
HasSvg(doc) == doc \in SvgTexts

\* p.getAttribute('data-id') || p.getAttribute('id')
ShapeCode(p) == IF p.dataId # <<>> THEN p.dataId ELSE p.id

\* shapes whose getBBox() may throw (not laid out)
FragileShapes == {3}

OpacityFull == 100
OpacityDimmed == 15

UnstyledShape ==
  [fill |-> "document", stroke |-> "document", strokeWidth |-> "document",
   cursor |-> "document", opacity |-> OpacityFull]

\* ------------------------------------------------------------------------
\* Coloring and labels
\* ------------------------------------------------------------------------
\* a coloring that hides the shapes outside the filter
ShapeStyleHidden(states, filter, p) ==
  LET code == ShapeCode(p)
      state == stateByCode(states, code)
      isVisible == filter = "all" \/ (state # 0 /\ states[state].status = filter)
  IN [fill |-> "#e5e7eb", stroke |-> "#0b0b0b", strokeWidth |-> "0.8",
      cursor |-> "default",
      opacity |-> IF isVisible THEN OpacityFull ELSE 0]

\* the style applyMapColors gives shape p
ShapeStyle(states, filter, p) ==
  LET code == ShapeCode(p)
      state == stateByCode(states, code)
      visibleSet == {states[i].code : i \in filteredStates(states, filter)}
      isVisible == IF filter = "all" THEN TRUE ELSE code \in visibleSet
  IN [fill |-> IF state # 0 /\ isVisible
                 THEN getStatusColor(states[state].status) ELSE "#e5e7eb",
      stroke |-> "#0b0b0b",
      strokeWidth |-> "0.8",
      cursor |-> IF state # 0 THEN "pointer" ELSE "default",
      opacity |-> IF isVisible THEN OpacityFull ELSE OpacityDimmed]

\* applyMapColors, the styles: a shape with no code keeps its style
applyMapColors(root, doc, states, filter, old) ==
  IF ~root \/ ~HasSvg(doc) THEN old
  ELSE [i \in 1..Len(DocShapes(doc)) |->
          IF ShapeCode(DocShapes(doc)[i]) = <<>> THEN old[i]
          ELSE ShapeStyle(states, filter, DocShapes(doc)[i])]

\* the texts of the fresh label group; `failed` are the shapes whose getBBox threw
LabelTexts(doc, states, filter, failed) ==
  LET shapes == DocShapes(doc)
      Labelled(i) ==
        LET code == ShapeCode(shapes[i])
            isVisible == IF filter = "all" THEN TRUE
                         ELSE \E k \in filteredStates(states, filter) :
                                states[k].code = code
        IN code # <<>> /\ i \notin failed /\ isVisible
  IN SelectSeq([i \in 1..Len(shapes) |-> i], Labelled)

\* applyStateLabels: drop the first old group, append one fresh group
applyStateLabels(root, doc, states, filter, old, failed) ==
  IF ~root \/ ~HasSvg(doc) THEN old
  ELSE (IF old = <<>> THEN <<>> ELSE Tail(old))
         \o << [pointerEvents |-> "none",
                texts |-> LabelTexts(doc, states, filter, failed)] >>

\* bindSvgEvents: enter/leave on every path[data-id], mousemove on the svg (0)
bindSvgEvents(root, doc, old) ==
  IF ~root \/ ~HasSvg(doc) THEN old
  ELSE old \cup {<<i, "mouseenter">> : i \in 1..Len(DocShapes(doc))}
           \cup {<<i, "mouseleave">> : i \in 1..Len(DocShapes(doc))}
           \cup {<<0, "mousemove">>}

\* unbindSvgEvents
unbindSvgEvents(root, doc, old) ==
  IF ~root \/ ~HasSvg(doc) THEN old
  ELSE old \ ({<<i, "mouseenter">> : i \in 1..Len(DocShapes(doc))}
               \cup {<<i, "mouseleave">> : i \in 1..Len(DocShapes(doc))}
               \cup {<<0, "mousemove">>})

\* ------------------------------------------------------------------------
\* JavaScript numbers: [k, q] with k = "fin" (the value q/4), "nan", "inf",
\* "-inf", or "str" (the empty string a cleared number input holds)
\* ------------------------------------------------------------------------
Fin(q) == [k |-> "fin", q |-> q]
Whole(n) == Fin(4 * n)
NaN == [k |-> "nan", q |-> 0]
EmptyInput == [k |-> "str", q |-> 0]

\* Number(v): the empty string converts to 0, a number to itself
Number(v) == IF v.k = "str" THEN Fin(0) ELSE v

\* Number.isFinite
IsFinite(n) == n.k = "fin"

\* Math.round of a finite number: the nearest integer, halves up
MathRound(n) == (n.q + 2) \div 4

\* ------------------------------------------------------------------------
\* Order submission
\* ------------------------------------------------------------------------
MaxOrders == 1

\* the tokens Math.random() yields for `O-${...}`: two calls may yield the same
OrderIds == {"O-1A2B3C4D", "O-9F8E7D6C"}

DefaultOrderForm ==
  [stateCode |-> <<>>, volume |-> Whole(1), salesForecast |-> Whole(5),
   days |-> Whole(30)]

\* values the form fields are given
FormStateCodes == {<<>>, <<" ">>, <<" ", "c", "a", " ">>, <<"Z", "Z">>}
FormVolumes == {NaN, Whole(0), Fin(10), Whole(5)}
FormForecasts == {NaN, Whole(0 - 1), Whole(2)}
FormDays == {NaN, Whole(0), Whole(7), Whole(30)}

\* the normalised region code createOrder works with
OrderStateCode(form) == ToUpperCase(Trim(form.stateCode))

\* a validation that lets any sales forecast through
OrderValidNoForecast(form) ==
  LET stateCode == OrderStateCode(form)
      volume == Number(form.volume)
      days == Number(form.days)
  IN /\ ~(stateCode = <<>> \/ ~IsFinite(volume) \/ volume.q <= 0)
     /\ ~(~IsFinite(days) \/ days.q <= 0)

\* the three validation returns of createOrder do not fire
OrderValid(form) ==
  LET stateCode == OrderStateCode(form)
      volume == Number(form.volume)
      salesForecast == Number(form.salesForecast)
      days == Number(form.days)
  IN /\ ~(stateCode = <<>> \/ ~IsFinite(volume) \/ volume.q <= 0)
     /\ ~(~IsFinite(salesForecast) \/ salesForecast.q < 0)
     /\ ~(~IsFinite(days) \/ days.q <= 0)

\* the IntakeOrder createOrder unshifts
NewOrder(form, id, now) ==
  [id |-> id,
   stateCode |-> OrderStateCode(form),
   volume |-> MathRound(Number(form.volume)),
   salesForecast |-> MathRound(Number(form.salesForecast)),
   days |-> MathRound(Number(form.days)),
   createdAt |-> now]

\* mockStates.findIndex(s => s.code === stateCode); 0 = not found
FindIndex(states, code) ==
  LET hits == {i \in 1..Len(states) : states[i].code = code}
  IN IF hits = {} THEN 0 ELSE CHOOSE i \in hits : \A j \in hits : i <= j

\* a status rule that marks a region below its target inactive
StatusOfInactive(s) ==
  IF s.currentVolume >= s.targetVolume THEN "active" ELSE "inactive"

\* the status rule applied after the volumes changed
StatusOf(s) == IF s.currentVolume >= s.targetVolume THEN "active" ELSE "low"

\* a region update that forgets the pending count
BumpRegionNoPending(s, form) ==
  LET s1 == [s EXCEPT !.currentVolume = @ + MathRound(Number(form.volume))]
      s2 == IF Number(form.days) = Whole(30)
              THEN [s1 EXCEPT !.salesNext30Days =
                                @ + MathRound(Number(form.salesForecast))]
              ELSE s1
  IN [s2 EXCEPT !.status = StatusOf(s2)]

\* a region update that adds the forecast for every window
BumpRegionAnyWindow(s, form) ==
  LET s1 == [s EXCEPT !.currentVolume = @ + MathRound(Number(form.volume)),
                      !.pending = @ + MathRound(Number(form.volume)),
                      !.salesNext30Days =
                         @ + MathRound(Number(form.salesForecast))]
  IN [s1 EXCEPT !.status = StatusOf(s1)]

\* a region update that books the order as fulfilled as well
BumpRegionAlsoFulfilled(s, form) ==
  LET volume == Number(form.volume)
      salesForecast == Number(form.salesForecast)
      days == Number(form.days)
      s1 == [s EXCEPT !.currentVolume = @ + MathRound(volume),
                      !.pending = @ + MathRound(volume),
                      !.fulfilled = @ + MathRound(volume)]
      s2 == IF days = Whole(30)
              THEN [s1 EXCEPT !.salesNext30Days = @ + MathRound(salesForecast)]
              ELSE s1
  IN [s2 EXCEPT !.status = StatusOf(s2)]

\* the in-place mutation of the matching Region
BumpRegion(s, form) ==
  LET volume == Number(form.volume)
      salesForecast == Number(form.salesForecast)
      days == Number(form.days)
      s1 == [s EXCEPT !.currentVolume = @ + MathRound(volume),
                      !.pending = @ + MathRound(volume)]
      s2 == IF days = Whole(30)
              THEN [s1 EXCEPT !.salesNext30Days = @ + MathRound(salesForecast)]
              ELSE s1
  IN [s2 EXCEPT !.status = StatusOf(s2)]

\* a region update that falls back on the first region when no code matches
StatesAfterOrderFirstRegion(states, form) ==
  LET idx == FindIndex(states, OrderStateCode(form))
  IN IF idx # 0 THEN [states EXCEPT ![idx] = BumpRegion(states[idx], form)]
     ELSE [states EXCEPT ![1] = BumpRegion(states[1], form)]

StatesAfterOrder(states, form) ==
  LET idx == FindIndex(states, OrderStateCode(form))
  IN IF idx # 0 THEN [states EXCEPT ![idx] = BumpRegion(states[idx], form)]
     ELSE states

\* a createOrder that pushes the new order to the end of the list
createOrderBodyPushes(id, failed) ==
  IF ~OrderValid(orderForm)
    THEN UNCHANGED <<orders, mockStates, orderForm, style, labelGroups>>
    ELSE /\ orders' = Append(orders, NewOrder(orderForm, id, Len(orders) + 1))
         /\ mockStates' = StatesAfterOrder(mockStates, orderForm)
         /\ orderForm' = DefaultOrderForm
         /\ style' = applyMapColors(mapRoot, innerHTML, mockStates',
                                    selectedStatus, style)
         /\ labelGroups' = applyStateLabels(mapRoot, innerHTML, mockStates',
                                            selectedStatus, labelGroups, failed)

\* createOrder() without its write of createOrderOpen: a silent return when a
\* check fails; else the new order, the region update, the form reset, and a
\* coloring pass
createOrderBody(id, failed) ==
  IF ~OrderValid(orderForm)
    THEN UNCHANGED <<orders, mockStates, orderForm, style, labelGroups>>
    ELSE /\ orders' = <<NewOrder(orderForm, id, Len(orders) + 1)>> \o orders
         /\ mockStates' = StatesAfterOrder(mockStates, orderForm)
         /\ orderForm' = DefaultOrderForm
         /\ style' = applyMapColors(mapRoot, innerHTML, mockStates',
                                    selectedStatus, style)
         /\ labelGroups' = applyStateLabels(mapRoot, innerHTML, mockStates',
                                            selectedStatus, labelGroups, failed)

createOrder(id, failed) ==
  /\ createOrderBody(id, failed)
  /\ createOrderOpen' = IF OrderValid(orderForm) THEN FALSE ELSE createOrderOpen

\* a call of createOrder while the list holds fewer than n orders
CreateOrderUpTo(n) ==
  /\ phase = "mounted"
  /\ Len(orders) < n
  /\ \E id \in OrderIds, failed \in SUBSET FragileShapes :
       createOrder(id, failed)
  /\ UNCHANGED <<phase, mapRoot, runPc, fetched, storage, cache, innerHTML, listeners, tooltip,
                 selectedStatus, mapError, layout, profileVars, retainerVars>>

\* a call of createOrder
CreateOrder == CreateOrderUpTo(MaxOrders)

\* v-model on the four form fields (the form is rendered while it is open)
SetOrderForm ==
  /\ phase = "mounted"
  /\ createOrderOpen
  /\ \/ \E v \in FormStateCodes : orderForm' = [orderForm EXCEPT !.stateCode = v]
     \/ \E v \in FormVolumes : orderForm' = [orderForm EXCEPT !.volume = v]
     \/ \E v \in FormForecasts :
          orderForm' = [orderForm EXCEPT !.salesForecast = v]
     \/ \E v \in FormDays : orderForm' = [orderForm EXCEPT !.days = v]
  /\ UNCHANGED <<mapVars, mockStates, orders, createOrderOpen, profileVars, retainerVars>>

\* openCreateOrder
OpenCreateOrder ==
  /\ phase = "mounted"
  /\ ~createOrderOpen
  /\ createOrderOpen' = TRUE
  /\ UNCHANGED <<mapVars, mockStates, orders, orderForm, profileVars, retainerVars>>

\* the Create button's :disabled rule
CreateDisabled(form) ==
  \/ Trim(form.stateCode) = <<>>
  \/ (IsFinite(Number(form.volume)) /\ Number(form.volume).q <= 0)

\* the Create button while the list holds fewer than n orders:
\* createOrder(); close()
ClickCreateUpTo(n) ==
  /\ phase = "mounted"
  /\ createOrderOpen
  /\ ~CreateDisabled(orderForm)
  /\ Len(orders) < n
  /\ \E id \in OrderIds, failed \in SUBSET FragileShapes :
       createOrderBody(id, failed)
  /\ createOrderOpen' = FALSE
  /\ UNCHANGED <<phase, mapRoot, runPc, fetched, storage, cache, innerHTML, listeners, tooltip,
                 selectedStatus, mapError, layout, profileVars, retainerVars>>

\* the Create button
ClickCreate == ClickCreateUpTo(MaxOrders)

\* the Cancel button: resetOrderForm(); close()
ClickCancel ==
  /\ phase = "mounted"
  /\ createOrderOpen
  /\ orderForm' = DefaultOrderForm
  /\ createOrderOpen' = FALSE
  /\ UNCHANGED <<mapVars, mockStates, orders, profileVars, retainerVars>>

\* the order list over several orders: the forms are the default values, one
\* region, two forecasts, and the four windows of orderDaysOptions
MaxListOrders == 2
ListForms ==
  [stateCode : {<<>>, <<" ", "c", "a", " ">>},
   volume : {Whole(1)},
   salesForecast : {Whole(5), Whole(2)},
   days : {Whole(7), Whole(14), Whole(30), Whole(60)}]

\* v-model, the select of orderDaysOptions included
SetListOrderForm ==
  /\ phase = "mounted"
  /\ createOrderOpen
  /\ \E f \in ListForms :
       /\ \E k \in DOMAIN f :
            /\ f[k] # orderForm[k]
            /\ \A j \in DOMAIN f \ {k} : f[j] = orderForm[j]
       /\ orderForm' = f
  /\ UNCHANGED <<mapVars, mockStates, orders, createOrderOpen, profileVars, retainerVars>>

CreateListOrder == CreateOrderUpTo(MaxListOrders)

ClickListCreate == ClickCreateUpTo(MaxListOrders)

\* ------------------------------------------------------------------------
\* Map load protocol and teardown
\* ------------------------------------------------------------------------
FetchOutcomes == {"ok", "status", "network"}
Storages == [readOk : BOOLEAN, writeOk : BOOLEAN]
WorkingStorage == [readOk |-> TRUE, writeOk |-> TRUE]

\* an injection that forgets to bind the handlers
InjectWithoutBinding(doc, failed) ==
  /\ innerHTML' = doc
  /\ listeners' = {}
  /\ style' = applyMapColors(TRUE, doc, mockStates, selectedStatus,
                             [i \in 1..Len(DocShapes(doc)) |-> UnstyledShape])
  /\ labelGroups' = applyStateLabels(TRUE, doc, mockStates, selectedStatus,
                                     <<>>, failed)

\* mapRoot.value.innerHTML = doc; bindSvgEvents(); applyMapColors()
Inject(doc, failed) ==
  /\ innerHTML' = doc
  /\ listeners' = bindSvgEvents(TRUE, doc, {})
  /\ style' = applyMapColors(TRUE, doc, mockStates, selectedStatus,
                             [i \in 1..Len(DocShapes(doc)) |-> UnstyledShape])
  /\ labelGroups' = applyStateLabels(TRUE, doc, mockStates, selectedStatus,
                                     <<>>, failed)

\* onMounted: run() starts; it returns at once when the container is missing
Mounted ==
  /\ phase = "setup"
  /\ phase' = "mounted"
  /\ runPc' = IF mapRoot THEN "fetching" ELSE "done"
  /\ UNCHANGED <<mapRoot, fetched, storage, cache, innerHTML, listeners, style, labelGroups,
                 tooltip, selectedStatus, mapError, layout, orderVars, profileVars, retainerVars>>

\* a catch branch that never consults the cache
CacheOrFallbackBundledOnly(readOk) == usSvgFallbackRaw

\* the document the catch branch injects: the cached text, else the bundled one
CacheOrFallback(readOk) ==
  LET cached == IF readOk THEN cache ELSE NoItem
  IN IF cached # NoItem /\ cached # NoDoc THEN cached ELSE usSvgFallbackRaw

\* a run() whose cache write is not guarded: a failing setItem lands in the
\* catch branch
FetchSettlesWriteAborts ==
  /\ runPc = "fetching"
  /\ \E outcome \in FetchOutcomes, text \in {RemoteSvg},
        failed \in SUBSET FragileShapes :
       /\ fetched' = outcome
       /\ cache' = IF outcome = "ok" /\ storage.writeOk THEN text ELSE cache
       /\ IF mapRoot
            THEN /\ Inject(IF outcome = "ok" /\ storage.writeOk THEN text
                           ELSE CacheOrFallback(storage.readOk), failed)
                 /\ runPc' = "done"
                 /\ UNCHANGED mapError
            ELSE /\ runPc' = "rejected"
                 /\ mapError' = TRUE
                 /\ UNCHANGED <<innerHTML, listeners, style, labelGroups>>
  /\ UNCHANGED <<phase, mapRoot, storage, tooltip, selectedStatus, layout,
                 orderVars, profileVars, retainerVars>>

\* the fetch settles and run() resumes: `outcome` is the fetch result, `text`
\* the response body, `failed` the shapes whose getBBox throws
FetchSettles ==
  /\ runPc = "fetching"
  /\ \E outcome \in FetchOutcomes, text \in {RemoteSvg},
        failed \in SUBSET FragileShapes :
       /\ fetched' = outcome
       /\ IF outcome = "ok"
         THEN /\ cache' = IF storage.writeOk THEN text ELSE cache
              /\ IF mapRoot
                   THEN /\ Inject(text, failed)
                        /\ runPc' = "done"
                        /\ UNCHANGED mapError
                   ELSE \* TypeError on the null ref, again in the catch branch
                        /\ runPc' = "rejected"
                        /\ mapError' = TRUE
                        /\ UNCHANGED <<innerHTML, listeners, style, labelGroups>>
         ELSE /\ UNCHANGED cache
              /\ IF mapRoot
                   THEN /\ Inject(CacheOrFallback(storage.readOk), failed)
                        /\ runPc' = "done"
                        /\ UNCHANGED mapError
                   ELSE /\ runPc' = "rejected"
                        /\ mapError' = TRUE
                        /\ UNCHANGED <<innerHTML, listeners, style, labelGroups>>
  /\ UNCHANGED <<phase, mapRoot, storage, tooltip, selectedStatus, layout,
                 orderVars, profileVars, retainerVars>>

\* teardown: the framework clears the template ref while it unmounts the
\* subtree, and runs the onUnmounted hook, unbindSvgEvents(), after that
Unmounted ==
  /\ phase = "mounted"
  /\ phase' = "unmounted"
  /\ mapRoot' = FALSE
  /\ listeners' = unbindSvgEvents(mapRoot', innerHTML, listeners)
  /\ UNCHANGED <<runPc, fetched, storage, cache, innerHTML, style, labelGroups, tooltip,
                 selectedStatus, mapError, layout, orderVars, profileVars, retainerVars>>

\* the status filter select; the watcher runs a coloring pass on a change
SelectStatus ==
  /\ phase = "mounted"
  /\ \E v \in StatusFilters, failed \in SUBSET FragileShapes :
       /\ v # selectedStatus
       /\ selectedStatus' = v
       /\ style' = applyMapColors(mapRoot, innerHTML, mockStates, v, style)
       /\ labelGroups' = applyStateLabels(mapRoot, innerHTML, mockStates, v,
                                          labelGroups, failed)
  /\ UNCHANGED <<phase, mapRoot, runPc, fetched, storage, cache, innerHTML, listeners, tooltip,
                 mapError, layout, orderVars, profileVars, retainerVars>>

\* ------------------------------------------------------------------------
\* Tooltip
\* ------------------------------------------------------------------------
MaxDim == 18
ContainerDims == {d \in 1..MaxDim : d % 6 = 0}
TooltipDims == {d \in 1..MaxDim : d % 6 = 0 /\ d <= 12}
Layouts == [cw : ContainerDims, ch : ContainerDims,
            w : TooltipDims, h : TooltipDims]
RoomyLayout == [cw |-> 18, ch |-> 18, w |-> 6, h |-> 6]

Max(a, b) == IF a >= b THEN a ELSE b
Min(a, b) == IF a <= b THEN a ELSE b

TooltipOffset == 6
TooltipMargin == 4

\* a clamp with no lower margin
ClampTooltipNoMargin(raw, size, box) ==
  Max(0, Min(raw, Max(0, size - box - TooltipMargin)))

\* Math.max(4, Math.min(raw, Math.max(0, size - box - 4)))
ClampTooltip(raw, size, box) ==
  Max(TooltipMargin, Min(raw, Max(0, size - box - TooltipMargin)))

\* handleStateEnter on shape i of the injected document
handleStateEnterAnyShape(i) ==
  LET code == ShapeCode(DocShapes(innerHTML)[i])
      state == stateByCode(mockStates, code)
  IN tooltip' = [tooltip EXCEPT !.state = state, !.open = TRUE]

handleStateEnter(i) ==
  LET code == ShapeCode(DocShapes(innerHTML)[i])
      state == stateByCode(mockStates, code)
  IN IF code = <<>> \/ state = 0
       THEN UNCHANGED tooltip
       ELSE tooltip' = [tooltip EXCEPT !.state = state, !.open = TRUE]

MouseEnter ==
  /\ phase = "mounted"
  /\ \E i \in 1..Len(DocShapes(innerHTML)) :
       /\ <<i, "mouseenter">> \in listeners
       /\ handleStateEnter(i)
  /\ UNCHANGED <<phase, mapRoot, runPc, fetched, storage, cache, innerHTML, listeners, style,
                 labelGroups, selectedStatus, mapError, layout, orderVars, profileVars, retainerVars>>

\* handleStateLeave
handleStateLeave ==
  tooltip' = [tooltip EXCEPT !.open = FALSE, !.state = 0]

MouseLeave ==
  /\ phase = "mounted"
  /\ \E i \in 1..Len(DocShapes(innerHTML)) : <<i, "mouseleave">> \in listeners
  /\ handleStateLeave
  /\ UNCHANGED <<phase, mapRoot, runPc, fetched, storage, cache, innerHTML, listeners, style,
                 labelGroups, selectedStatus, mapError, layout, orderVars, profileVars, retainerVars>>

\* the tooltip element is rendered (v-if) when the tooltip is open and bound
TooltipRendered == tooltip.open /\ tooltip.state # 0

\* handleMouseMove with the pointer at (px, py) from the container's corner
handleMouseMove(px, py) ==
  IF ~tooltip.open \/ ~mapRoot
    THEN UNCHANGED tooltip
    ELSE LET rawX == px + TooltipOffset
             rawY == py + TooltipOffset
             w == IF TooltipRendered THEN layout.w ELSE 0
             h == IF TooltipRendered THEN layout.h ELSE 0
         IN tooltip' = [tooltip EXCEPT
                          !.x = ClampTooltip(rawX, layout.cw, w),
                          !.y = ClampTooltip(rawY, layout.ch, h)]

\* pointer positions inside the container
PointerXs == {d \in 0..layout.cw : d % 6 = 0}
PointerYs == {d \in 0..layout.ch : d % 6 = 0}

MouseMove ==
  /\ phase = "mounted"
  /\ <<0, "mousemove">> \in listeners
  /\ \E px \in PointerXs, py \in PointerYs : handleMouseMove(px, py)
  /\ UNCHANGED <<phase, mapRoot, runPc, fetched, storage, cache, innerHTML, listeners, style,
                 labelGroups, selectedStatus, mapError, layout, orderVars, profileVars, retainerVars>>

\* ------------------------------------------------------------------------
\* Profile draft (useAttorneyProfile) and the settings tabs
\* ------------------------------------------------------------------------
\* the field list the expertise tab passes to commitEditing
expertiseFields ==
  {"licensedStates", "primaryCity", "countiesCovered", "federalCourts",
   "primaryPracticeFocus", "injuryCategories", "exclusionaryCriteria",
   "minimumCaseValue"}

\* a capacity list that also names a field of the expertise tab
capacityFieldsWithCity ==
  {"availabilityStatus", "firmSize", "caseManagementSoftware",
   "insuranceCarriers", "litigationStyle", "largestSettlement",
   "avgTimeToClose", "primaryCity"}

\* the field list the capacity tab passes to commitEditing
capacityFields ==
  {"availabilityStatus", "firmSize", "caseManagementSoftware",
   "insuranceCarriers", "litigationStyle", "largestSettlement",
   "avgTimeToClose"}

\* the draft fields the expertise tab's inputs are bound to (v-model)
expertiseInputs ==
  {"licensedStates", "primaryCity", "countiesCovered", "federalCourts",
   "primaryPracticeFocus", "injuryCategories", "exclusionaryCriteria",
   "minimumCaseValue"}

\* the draft fields the capacity tab's inputs are bound to (v-model)
capacityInputs ==
  {"availabilityStatus", "firmSize", "caseManagementSoftware",
   "insuranceCarriers", "litigationStyle", "largestSettlement",
   "avgTimeToClose"}

ProfileFields == expertiseInputs \cup capacityInputs
Tabs == {"expertise", "capacity"}
Routes == Tabs \cup {"elsewhere"}
CommitFields(tab) == IF tab = "expertise" THEN expertiseFields ELSE capacityFields
FormInputs(tab) == IF tab = "expertise" THEN expertiseInputs ELSE capacityInputs

NoUser == ""
NoNav == "null"

\* the fields the user types into, and the values typed or stored: an unset
\* value and a set one
FieldValues == {0, 1}
TouchedFields == {"primaryCity", "firmSize"}
EmptyProfile == [f \in ProfileFields |-> 0]
StoredProfiles ==
  {[f \in ProfileFields |-> IF f \in TouchedFields THEN t[f] ELSE 0] :
     t \in [TouchedFields -> FieldValues]}

MaxInflight == 1
MaxPendingMounts == 1

\* isDirty: some draft field differs from the baseline
isDirty == draft # baseline

\* startEditing: Idle -> Editing
startEditing == isEditing' = TRUE

\* cancelEditing: back to Idle, the draft reset to the baseline
cancelEditing ==
  /\ isEditing' = FALSE
  /\ draft' = baseline

\* the values commitEditing(owner, fields) sends: the named fields of the draft
CommitPatch(fields) == [f \in fields \cap ProfileFields |-> draft[f]]

\* a record with the fields of a patch overwritten
Patched(rec, patch) ==
  [f \in ProfileFields |-> IF f \in DOMAIN patch THEN patch[f] ELSE rec[f]]

\* commitEditing resolved: the named fields persisted, the baseline adopts
\* them, the state returns to Idle
commitSucceeds(patch) ==
  /\ backend' = Patched(backend, patch)
  /\ baseline' = Patched(baseline, patch)
  /\ isEditing' = FALSE
  /\ UNCHANGED draft

\* commitEditing rejected: nothing of the draft machine changes
commitFails == UNCHANGED <<backend, baseline, isEditing, draft>>

\* the shown page is a settings tab the user can operate
TabShown == route \in Tabs
Interactive == TabShown /\ ~unsavedOpen

\* the Edit button
ClickEdit ==
  /\ Interactive
  /\ ~isEditing
  /\ startEditing
  /\ UNCHANGED <<pageVars, retainerVars, route, userId, backend, baseline, draft, saving,
                 inflight, authPending, loadPending, unsavedOpen, pendingNav,
                 toast>>

\* typing into an input of the shown tab (inputs are disabled unless editing)
EditField ==
  /\ Interactive
  /\ isEditing
  /\ \E f \in FormInputs(route) \cap TouchedFields, v \in FieldValues :
       /\ v # draft[f]
       /\ draft' = [draft EXCEPT ![f] = v]
  /\ UNCHANGED <<pageVars, retainerVars, route, userId, backend, baseline, isEditing, saving,
                 inflight, authPending, loadPending, unsavedOpen, pendingNav,
                 toast>>

\* a Cancel button that leaves the edits in the draft
ClickCancelEditingKeepsDraft ==
  /\ Interactive
  /\ isEditing
  /\ isEditing' = FALSE
  /\ UNCHANGED <<pageVars, retainerVars, route, userId, backend, baseline, draft, saving,
                 inflight, authPending, loadPending, unsavedOpen, pendingNav,
                 toast>>

\* the Cancel button
ClickCancelEditing ==
  /\ Interactive
  /\ isEditing
  /\ cancelEditing
  /\ UNCHANGED <<pageVars, retainerVars, route, userId, backend, baseline, saving,
                 inflight, authPending, loadPending, unsavedOpen, pendingNav,
                 toast>>

\* onSubmit up to its await: the Save button is shown while editing and is
\* disabled while this tab's saving flag is set
OnSubmit ==
  /\ Interactive
  /\ isEditing
  /\ ~saving
  /\ IF userId = NoUser
       THEN UNCHANGED <<saving, inflight>>
       ELSE /\ Len(inflight) < MaxInflight
            /\ saving' = TRUE
            /\ inflight' = Append(inflight,
                  [tab |-> route, patch |-> CommitPatch(CommitFields(route)),
                   current |-> TRUE])
  /\ UNCHANGED <<pageVars, retainerVars, route, userId, backend, baseline, draft, isEditing,
                 authPending, loadPending, unsavedOpen, pendingNav, toast>>

RemoveAt(seq, i) == SubSeq(seq, 1, i - 1) \o SubSeq(seq, i + 1, Len(seq))

\* an onSubmit whose saving flag is cleared on success only
CommitSettlesAsNoFinally(i, ok) ==
  /\ i \in 1..Len(inflight)
  /\ IF ok
       THEN /\ backend' = [f \in ProfileFields |->
                             IF f \in DOMAIN inflight[i].patch
                               THEN inflight[i].patch[f] ELSE backend[f]]
            /\ baseline' = [f \in ProfileFields |->
                              IF f \in DOMAIN inflight[i].patch
                                THEN inflight[i].patch[f] ELSE baseline[f]]
            /\ isEditing' = FALSE
            /\ UNCHANGED draft
       ELSE UNCHANGED <<backend, baseline, isEditing, draft>>
  /\ toast' = IF ok THEN "success" ELSE "error"
  /\ saving' = IF ok /\ inflight[i].current THEN FALSE ELSE saving
  /\ inflight' = SubSeq(inflight, 1, i - 1) \o SubSeq(inflight, i + 1, Len(inflight))
  /\ UNCHANGED <<pageVars, retainerVars, route, userId, authPending, loadPending,
                 unsavedOpen, pendingNav>>

\* onSubmit after its await: the success toast, or the catch branch's error
\* toast; finally saving = false (on the flag of the tab that submitted)
CommitSettlesAs(i, ok) ==
  /\ i \in 1..Len(inflight)
  /\ IF ok THEN commitSucceeds(inflight[i].patch) ELSE commitFails
  /\ toast' = IF ok THEN "success" ELSE "error"
  /\ saving' = IF inflight[i].current THEN FALSE ELSE saving
  /\ inflight' = RemoveAt(inflight, i)
  /\ UNCHANGED <<pageVars, retainerVars, route, userId, authPending, loadPending,
                 unsavedOpen, pendingNav>>

\* a pending commitEditing call settles
CommitSettles ==
  \E i \in 1..Len(inflight), ok \in BOOLEAN : CommitSettlesAs(i, ok)

\* the navigation goes through: the shown component is unmounted (its refs are
\* gone, its pending commits lose their tab) and the destination is mounted
Navigate(dest) ==
  /\ route' = dest
  /\ saving' = FALSE
  /\ unsavedOpen' = FALSE
  /\ pendingNav' = NoNav
  /\ inflight' = [i \in 1..Len(inflight) |-> [inflight[i] EXCEPT !.current = FALSE]]
  /\ IF dest \in Tabs
       THEN /\ authPending + loadPending < MaxPendingMounts
            /\ authPending' = authPending + 1
       ELSE UNCHANGED authPending

\* a leave guard that always calls next()
RouteLeaveUnguarded ==
  /\ TabShown
  /\ \E dest \in Routes \ {route} : Navigate(dest)
  /\ UNCHANGED <<pageVars, retainerVars, userId, backend, baseline, draft, isEditing,
                 loadPending, toast>>

\* onBeforeRouteLeave: intercept while editing and dirty, else next()
RouteLeave ==
  /\ TabShown
  /\ \E dest \in Routes \ {route} :
       IF isEditing /\ isDirty
         THEN /\ pendingNav' = dest
              /\ unsavedOpen' = TRUE
              /\ UNCHANGED <<route, saving, inflight, authPending>>
         ELSE Navigate(dest)
  /\ UNCHANGED <<pageVars, retainerVars, userId, backend, baseline, draft, isEditing,
                 loadPending, toast>>

\* a navigation into the settings from another page
EnterSettings ==
  /\ route = "elsewhere"
  /\ \E dest \in Tabs : Navigate(dest)
  /\ UNCHANGED <<pageVars, retainerVars, userId, backend, baseline, draft, isEditing,
                 loadPending, toast>>

\* handleConfirmDiscard. pendingNav holds () => next() of a guard that has
\* already answered next(false): the router settled that navigation as
\* aborted when the guard returned, and a later call of its next() changes
\* nothing, so go?.() leaves the route where it is
handleConfirmDiscard ==
  /\ TabShown
  /\ unsavedOpen
  /\ cancelEditing
  /\ unsavedOpen' = FALSE
  /\ pendingNav' = NoNav
  /\ UNCHANGED route
  /\ UNCHANGED <<pageVars, retainerVars, userId, backend, baseline, saving, inflight,
                 authPending, loadPending, toast>>

\* handleStay
handleStay ==
  /\ TabShown
  /\ unsavedOpen
  /\ unsavedOpen' = FALSE
  /\ pendingNav' = NoNav
  /\ UNCHANGED <<pageVars, retainerVars, route, userId, backend, baseline, draft, isEditing,
                 saving, inflight, authPending, loadPending, toast>>

\* the prompt closed by other means than its two buttons (update:open)
UpdateOpen ==
  /\ TabShown
  /\ unsavedOpen
  /\ unsavedOpen' = FALSE
  /\ UNCHANGED <<pageVars, retainerVars, route, userId, backend, baseline, draft, isEditing,
                 saving, inflight, authPending, loadPending, pendingNav, toast>>

\* loadProfile resolved. From Idle the baseline and the draft take the
\* stored record. Loading while Editing is left open by the description of
\* the draft: the record is either ignored or taken over as from Idle
LoadOutcomes == IF isEditing THEN BOOLEAN ELSE {TRUE}
loadProfile(applies, field) == IF applies THEN backend ELSE field

\* a mount handler that ends without looking at the edit flag
ReconcileSkipped(bl, dr) ==
  /\ UNCHANGED isEditing
  /\ draft' = dr

\* the end of onMounted: cancel a stale edit flag (editing, nothing changed)
Reconcile(bl, dr) ==
  IF isEditing /\ dr = bl
    THEN /\ isEditing' = FALSE
         /\ draft' = bl
    ELSE /\ UNCHANGED isEditing
         /\ draft' = dr

\* onMounted after await auth.init(): loadProfile is called when a user id
\* exists, else the handler ends with the reconciliation
MountAuthDone ==
  /\ authPending > 0
  /\ authPending' = authPending - 1
  /\ IF userId # NoUser
       THEN /\ loadPending' = loadPending + 1
            /\ UNCHANGED <<baseline, draft, isEditing>>
       ELSE /\ UNCHANGED <<loadPending, baseline>>
            /\ Reconcile(baseline, draft)
  /\ UNCHANGED <<pageVars, retainerVars, route, userId, backend, saving, inflight,
                 unsavedOpen, pendingNav, toast>>

\* onMounted after await loadProfile(): the reconciliation
MountLoadDone ==
  /\ loadPending > 0
  /\ loadPending' = loadPending - 1
  /\ \E applies \in LoadOutcomes :
       /\ baseline' = loadProfile(applies, baseline)
       /\ Reconcile(loadProfile(applies, baseline), loadProfile(applies, draft))
  /\ UNCHANGED <<pageVars, retainerVars, route, userId, backend, saving, inflight,
                 authPending, unsavedOpen, pendingNav, toast>>

\* ------------------------------------------------------------------------
\* Retainers page: load() and the Refresh button
\* ------------------------------------------------------------------------
NoRole == "undefined"
Roles == {"lawyer", "admin", "agent", NoRole}
NoError == "null"
NoCenter == "null"
NoVendor == "null"
NoFilter == <<>>

\* the daily_deal_flow table
DailyDealFlow ==
  { [id |-> "d1", assigned_attorney_id |-> "u1", lead_vendor |-> "v1", created_at |-> 2],
    [id |-> "d2", assigned_attorney_id |-> "u2", lead_vendor |-> "v1", created_at |-> 3],
    [id |-> "d3", assigned_attorney_id |-> "u2", lead_vendor |-> "v2", created_at |-> 1] }

\* the rows of app_users / centers the lookups can find
Databases == [centerId : {NoCenter, "c1"}, leadVendor : {NoVendor, "v1"}]

RowLimit == 250

MaxRetainerLoads == 2

\* queryBuilder.eq(column, value)
Eq(column, value) == <<column, value>>

\* the records a query with the filter selects
Matching(filter) ==
  IF filter = NoFilter THEN DailyDealFlow
  ELSE {r \in DailyDealFlow : r[filter[1]] = filter[2]}

\* .order('created_at', { ascending: false })
OrderDescending(S) ==
  [i \in 1..Cardinality(S) |->
     CHOOSE r \in S : Cardinality({q \in S : q.created_at > r.created_at}) = i - 1]

\* .limit(n)
Limit(seq, n) == SubSeq(seq, 1, IF Len(seq) < n THEN Len(seq) ELSE n)

\* the data of the rows query, as ids
QueryData(filter) ==
  LET found == Limit(OrderDescending(Matching(filter)), RowLimit)
  IN [i \in 1..Len(found) |-> found[i].id]

\* the filter chosen right after auth.init(): PendingFilter when the center
\* lookups are still to come
PendingFilter == <<"pending">>
RoleFilter ==
  IF role = "lawyer" /\ userId # NoUser THEN Eq("assigned_attorney_id", userId)
  ELSE IF role = NoRole THEN PendingFilter
  ELSE NoFilter

\* load() up to its first await
loadStarts ==
  /\ Len(loads) < MaxRetainerLoads
  /\ loading' = TRUE
  /\ error' = NoError
  /\ loads' = Append(loads, [pc |-> "auth", filter |-> NoFilter])

\* the catch and finally blocks of load() number i
loadFails(i) ==
  /\ error' = "Failed to load retainers"
  /\ loading' = FALSE
  /\ loads' = RemoveAt(loads, i)
  /\ UNCHANGED rows

\* onMounted(load)
RetainersMounted ==
  /\ ~rtMounted
  /\ rtMounted' = TRUE
  /\ loadStarts
  /\ UNCHANGED <<pageVars, profileVars, role, db, rows>>

\* a Refresh button that stays enabled while loading
ClickRefreshWhileLoading ==
  /\ rtMounted
  /\ loadStarts
  /\ UNCHANGED <<pageVars, profileVars, role, db, rtMounted, rows>>

\* the Refresh button: it shows the loading state and is disabled meanwhile
ClickRefresh ==
  /\ rtMounted
  /\ ~loading
  /\ loadStarts
  /\ UNCHANGED <<pageVars, profileVars, role, db, rtMounted, rows>>

\* await auth.init() settles for load() number i
AuthInitSettles ==
  /\ \E i \in 1..Len(loads), ok \in BOOLEAN :
       /\ loads[i].pc = "auth"
       /\ IF ~ok THEN loadFails(i)
          ELSE /\ loads' = [loads EXCEPT ![i] =
                    IF RoleFilter = PendingFilter
                      THEN [pc |-> "app_users", filter |-> NoFilter]
                      ELSE [pc |-> "query", filter |-> RoleFilter]]
               /\ UNCHANGED <<loading, error, rows>>
  /\ UNCHANGED <<pageVars, profileVars, role, db, rtMounted>>

\* the app_users lookup settles: found is false when the request failed (the
\* result's data is null) or the user has no row
AppUserSettles ==
  /\ \E i \in 1..Len(loads), found \in BOOLEAN :
       /\ loads[i].pc = "app_users"
       /\ LET center_id == IF found /\ userId # NoUser THEN db.centerId ELSE NoCenter
          IN loads' = [loads EXCEPT ![i] =
               IF center_id # NoCenter
                 THEN [pc |-> "centers", filter |-> NoFilter]
                 ELSE [pc |-> "query", filter |-> NoFilter]]
  /\ UNCHANGED <<pageVars, profileVars, role, db, rtMounted, loading, error, rows>>

\* the centers lookup settles
CenterSettles ==
  /\ \E i \in 1..Len(loads), found \in BOOLEAN :
       /\ loads[i].pc = "centers"
       /\ LET lead_vendor == IF found THEN db.leadVendor ELSE NoVendor
          IN loads' = [loads EXCEPT ![i] =
               [pc |-> "query",
                filter |-> IF lead_vendor # NoVendor
                             THEN Eq("lead_vendor", lead_vendor) ELSE NoFilter]]
  /\ UNCHANGED <<pageVars, profileVars, role, db, rtMounted, loading, error, rows>>

\* a load whose failure clears the rows
QuerySettlesClearsRows ==
  /\ \E i \in 1..Len(loads), ok \in BOOLEAN :
       /\ loads[i].pc = "query"
       /\ IF ok
            THEN /\ rows' = QueryData(loads[i].filter)
                 /\ loading' = FALSE
                 /\ loads' = RemoveAt(loads, i)
                 /\ UNCHANGED error
            ELSE /\ error' = "Failed to load retainers"
                 /\ loading' = FALSE
                 /\ loads' = RemoveAt(loads, i)
                 /\ rows' = <<>>
  /\ UNCHANGED <<pageVars, profileVars, role, db, rtMounted>>

\* the rows query settles: the data replaces the rows, or supaError is thrown
QuerySettles ==
  /\ \E i \in 1..Len(loads), ok \in BOOLEAN :
       /\ loads[i].pc = "query"
       /\ IF ok
            THEN /\ rows' = QueryData(loads[i].filter)
                 /\ loading' = FALSE
                 /\ loads' = RemoveAt(loads, i)
                 /\ UNCHANGED error
            ELSE loadFails(i)
  /\ UNCHANGED <<pageVars, profileVars, role, db, rtMounted>>

\* ------------------------------------------------------------------------
\* Specifications
\* ------------------------------------------------------------------------
\* the retainers page before its mount, for one fixed user
InitRetainersFixed ==
  /\ role = "lawyer"
  /\ db = [centerId |-> "c1", leadVendor |-> "v1"]
  /\ rtMounted = FALSE
  /\ loading = FALSE
  /\ error = NoError
  /\ rows = <<>>
  /\ loads = <<>>

InitMapPage ==
  /\ phase = "setup"
  /\ runPc = "init"
  /\ fetched = "pending"
  /\ innerHTML = NoDoc
  /\ listeners = {}
  /\ style = <<>>
  /\ labelGroups = <<>>
  /\ tooltip = [open |-> FALSE, x |-> 0, y |-> 0, state |-> 0]
  /\ selectedStatus = "all"
  /\ mockStates = InitialMockStates
  /\ orders = <<>>
  /\ orderForm = DefaultOrderForm
  /\ createOrderOpen = FALSE
  /\ mapError = FALSE

\* both pages of the dashboard before their mount
InitPage ==
  /\ InitMapPage
  /\ InitRetainersFixed

\* the retainers page before its mount, for every role and every center data;
\* a profile, and with it a role, exists for a signed-in user only
InitRetainersAny ==
  /\ role \in Roles
  /\ userId = NoUser => role = NoRole
  /\ db \in Databases
  /\ rtMounted = FALSE
  /\ loading = FALSE
  /\ error = NoError
  /\ rows = <<>>
  /\ loads = <<>>

\* the settings state when a tab is first opened: nothing loaded yet
InitDraft ==
  /\ baseline = EmptyProfile
  /\ draft = EmptyProfile
  /\ isEditing = FALSE
  /\ saving = FALSE
  /\ inflight = <<>>
  /\ authPending = 1
  /\ loadPending = 0
  /\ unsavedOpen = FALSE
  /\ pendingNav = NoNav
  /\ toast = "none"

\* one fixed settings state, for the specifications of the map page
InitSettingsFixed ==
  /\ InitDraft
  /\ route = "expertise"
  /\ userId = "u1"
  /\ backend = EmptyProfile

InitSettings ==
  /\ InitDraft
  /\ route \in Tabs
  /\ userId \in {NoUser, "u1"}
  /\ backend \in StoredProfiles

NextSettings ==
  \/ ClickEdit \/ EditField \/ ClickCancelEditing \/ OnSubmit \/ CommitSettles
  \/ RouteLeave \/ EnterSettings \/ handleConfirmDiscard \/ handleStay
  \/ UpdateOpen
  \/ MountAuthDone \/ MountLoadDone

NextRetainers ==
  \/ RetainersMounted \/ ClickRefresh
  \/ AuthInitSettles \/ AppUserSettles \/ CenterSettles \/ QuerySettles

Init ==
  /\ InitMapPage
  /\ InitSettings
  /\ InitRetainersAny
  /\ mapRoot \in BOOLEAN
  /\ storage \in Storages
  /\ cache \in {NoItem, NoDoc, CachedSvg}
  /\ layout \in Layouts

Next ==
  \/ Mounted \/ FetchSettles \/ Unmounted \/ SelectStatus
  \/ MouseEnter \/ MouseLeave \/ MouseMove
  \/ OpenCreateOrder \/ SetOrderForm \/ CreateOrder \/ ClickCreate \/ ClickCancel
  \/ NextSettings
  \/ NextRetainers

Spec == Init /\ [][Next]_vars

\* the map widget: load, teardown, filter, tooltip, in one layout
InitMap ==
  /\ InitPage
  /\ InitSettingsFixed
  /\ mapRoot \in BOOLEAN
  /\ storage \in Storages
  /\ cache \in {NoItem, NoDoc, CachedSvg}
  /\ layout = RoomyLayout

NextMap ==
  \/ Mounted \/ FetchSettles \/ Unmounted \/ SelectStatus
  \/ MouseEnter \/ MouseLeave \/ MouseMove

SpecMap == InitMap /\ [][NextMap]_vars

\* the map widget with a fetch that settles: the browser ends every request
\* with a response or an error
SpecMapLive == InitMap /\ [][NextMap]_vars /\ WF_vars(FetchSettles)

\* the tooltip in every layout
InitTooltip ==
  /\ InitPage
  /\ InitSettingsFixed
  /\ mapRoot = TRUE
  /\ storage = WorkingStorage
  /\ cache = NoItem
  /\ layout \in Layouts

NextTooltip ==
  \/ Mounted \/ FetchSettles \/ MouseEnter \/ MouseLeave \/ MouseMove

SpecTooltip == InitTooltip /\ [][NextTooltip]_vars

\* order submission while the map is still loading
InitOrder ==
  /\ InitPage
  /\ InitSettingsFixed
  /\ mapRoot = TRUE
  /\ storage = WorkingStorage
  /\ cache = NoItem
  /\ layout = RoomyLayout

NextOrder ==
  \/ Mounted \/ OpenCreateOrder \/ SetOrderForm \/ CreateOrder
  \/ ClickCreate \/ ClickCancel

SpecOrder == InitOrder /\ [][NextOrder]_vars

\* the order list over several orders
NextOrderList ==
  \/ Mounted \/ OpenCreateOrder \/ SetListOrderForm \/ CreateListOrder
  \/ ClickListCreate \/ ClickCancel

SpecOrderList == InitOrder /\ [][NextOrderList]_vars

\* the settings tabs over the shared draft
InitProfile ==
  /\ InitPage
  /\ mapRoot = TRUE
  /\ storage = WorkingStorage
  /\ cache = NoItem
  /\ layout = RoomyLayout
  /\ InitSettings

SpecProfile == InitProfile /\ [][NextSettings]_vars

\* the retainers page for every signed-in state
InitRetainers ==
  /\ InitMapPage
  /\ mapRoot = TRUE
  /\ storage = WorkingStorage
  /\ cache = NoItem
  /\ layout = RoomyLayout
  /\ InitDraft
  /\ route = "elsewhere"
  /\ userId \in {NoUser, "u1"}
  /\ backend = EmptyProfile
  /\ InitRetainersAny

SpecRetainers == InitRetainers /\ [][NextRetainers]_vars

\* ------------------------------------------------------------------------
\* Properties
\* ------------------------------------------------------------------------
\* the fetch failed and run() went through its catch branch
FetchFailedAndInjected == runPc = "done" /\ fetched \in {"status", "network"}

\* the cache holds a document that can be read
CacheHoldsDocument == storage.readOk /\ cache # NoItem /\ cache # NoDoc

\* C1: after a failed fetch (network error or non-success status) the
\* injected document is the cached document, and not the bundled one, when
\* the cache holds a document; it is the bundled fallback when the cache is
\* empty or cannot be read.
C1_FallbackChain ==
  FetchFailedAndInjected =>
    /\ CacheHoldsDocument =>
         (innerHTML = cache /\ innerHTML # usSvgFallbackRaw)
    /\ ~CacheHoldsDocument => innerHTML = usSvgFallbackRaw

C1_Witness ==
  /\ FetchFailedAndInjected
  /\ fetched = "network"
  /\ cache = CachedSvg
  /\ innerHTML = CachedSvg

\* the regions whose code is the normalised code of the form
MatchingRegions(form) ==
  {k \in 1..Len(mockStates) :
     mockStates[k].code = ToUpperCase(Trim(form.stateCode))}

\* a step in which createOrder accepted the form
OrderAccepted == (CreateOrder \/ ClickCreate) /\ Len(orders') = Len(orders) + 1

\* region k after the step differs from before only by the volumes dv, the
\* forecast df and the recomputed status
RegionBumped(k, dv, df) ==
  LET old == mockStates[k]
      new == mockStates'[k]
  IN /\ new.currentVolume = old.currentVolume + dv
     /\ new.pending = old.pending + dv
     /\ new.salesNext30Days = old.salesNext30Days + df
     /\ new.status = (IF new.currentVolume >= new.targetVolume
                        THEN "active" ELSE "low")
     /\ new.targetVolume = old.targetVolume
     /\ new.fulfilled = old.fulfilled
     /\ new.code = old.code
     /\ new.name = old.name

\* the worked example: 5 units, 30 days, forecast 2 on a region at 45 of 50
ExampleHolds ==
  \A k \in MatchingRegions(orderForm) :
    (/\ orderForm.volume = Whole(5)
     /\ orderForm.days = Whole(30)
     /\ orderForm.salesForecast = Whole(2)
     /\ mockStates[k].currentVolume = 45
     /\ mockStates[k].targetVolume = 50
     /\ mockStates[k].pending = 5
     /\ mockStates[k].salesNext30Days = 5)
    => (/\ mockStates'[k].currentVolume = 50
        /\ mockStates'[k].pending = 10
        /\ mockStates'[k].salesNext30Days = 7
        /\ mockStates'[k].status = "active")

\* C2 (as amended): an accepted createOrder prepends exactly one order and
\* changes the matching region by currentVolume += round(volume) and
\* pending += round(volume), plus forecast += round(salesForecast) when the
\* window is exactly 30 days, then recomputes the status; no other region and
\* no other field changes; the worked example gives 50 / 10 / 7 / active.
C2_OrderEffect ==
  [][OrderAccepted =>
       /\ Tail(orders') = orders
       /\ Len(mockStates') = Len(mockStates)
       /\ \A k \in 1..Len(mockStates) :
            IF k \in MatchingRegions(orderForm)
              THEN RegionBumped(k, MathRound(Number(orderForm.volume)),
                     IF Number(orderForm.days) = Whole(30)
                       THEN MathRound(Number(orderForm.salesForecast)) ELSE 0)
              ELSE mockStates'[k] = mockStates[k]
       /\ ExampleHolds]_vars

\* C2 as stated: the region changes by the volume and the forecast passed in
\* (the values are in quarter units, hence the factor 4)
C2_RawVolume ==
  [][OrderAccepted =>
       \A k \in MatchingRegions(orderForm) :
         /\ 4 * mockStates'[k].currentVolume =
              4 * mockStates[k].currentVolume + Number(orderForm.volume).q
         /\ 4 * mockStates'[k].pending =
              4 * mockStates[k].pending + Number(orderForm.volume).q]_vars

C2_Witness ==
  /\ Len(orders) = 1
  /\ orders[1].stateCode = CA
  /\ orders[1].volume = 5
  /\ \E k \in 1..Len(mockStates) :
       /\ mockStates[k].code = CA
       /\ mockStates[k].currentVolume = 50
       /\ mockStates[k].pending = 10
       /\ mockStates[k].salesNext30Days = 7
       /\ mockStates[k].status = "active"

\* the input createOrder is to reject: empty code after trimming, volume not
\* finite or <= 0, forecast not finite or < 0, window not finite or <= 0
InvalidInput(form) ==
  \/ Trim(form.stateCode) = <<>>
  \/ Number(form.volume).k # "fin" \/ Number(form.volume).q <= 0
  \/ Number(form.salesForecast).k # "fin" \/ Number(form.salesForecast).q < 0
  \/ Number(form.days).k # "fin" \/ Number(form.days).q <= 0

\* C3: createOrder with an invalid input is a no-op: the order list and every
\* region are exactly as before.
C3_InvalidIsNoOp ==
  [][((CreateOrder \/ ClickCreate) /\ InvalidInput(orderForm)) =>
       (orders' = orders /\ mockStates' = mockStates)]_vars

\* the Create button was pressed on a form with an invalid forecast: the form
\* is closed, its fields are as typed, no order exists
C3_Witness ==
  /\ ~createOrderOpen
  /\ orderForm.salesForecast = NaN
  /\ orderForm.stateCode # <<>>
  /\ orders = <<>>
  /\ mockStates = InitialMockStates

\* the tab other than t
OtherTab(t) == IF t = "expertise" THEN "capacity" ELSE "expertise"

\* C4: the field lists the two tabs pass to commitEditing are disjoint, and a
\* commit that settles changes no backend field owned by the other tab,
\* whatever the shared draft holds for it.
C4_CommitScoped ==
  /\ [](expertiseFields \cap capacityFields = {})
  /\ [][\A i \in 1..Len(inflight), ok \in BOOLEAN :
          CommitSettlesAs(i, ok) =>
            \A f \in FormInputs(OtherTab(inflight[i].tab)) :
              backend'[f] = backend[f]]_vars

\* a capacity commit went through while the draft's expertise field differed
\* from the stored one
C4_Witness ==
  /\ route = "capacity"
  /\ toast = "success"
  /\ ~isEditing
  /\ inflight = <<>>
  /\ draft["firmSize"] = backend["firmSize"]
  /\ draft["firmSize"] # 0
  /\ draft["primaryCity"] # backend["primaryCity"]

\* C5: when commitEditing fails the draft machine is as before (still
\* Editing, draft and baseline unchanged), the notification is the error one
\* and not the success one, no new commit is issued, and the saving flag of
\* the submitting tab is false again.
C5_CommitFailure ==
  [][\A i \in 1..Len(inflight) :
       CommitSettlesAs(i, FALSE) =>
         /\ isEditing' = isEditing
         /\ draft' = draft
         /\ baseline' = baseline
         /\ backend' = backend
         /\ toast' = "error"
         /\ toast' # "success"
         /\ Len(inflight') = Len(inflight) - 1
         /\ inflight[i].current => ~saving']_vars

C5_Witness ==
  /\ toast = "error"
  /\ isEditing
  /\ isDirty
  /\ ~saving
  /\ inflight = <<>>

C7_DiscardNavigates ==
  [][(handleConfirmDiscard /\ pendingNav # NoNav) =>
       /\ ~isEditing'
       /\ draft' = baseline'
       /\ route' = pendingNav]_vars

\* C8: cancelEditing returns to Idle with the draft equal to the last loaded
\* baseline whatever was edited; startEditing from a clean draft changes no
\* field, so through startEditing and cancelEditing the draft stays the
\* baseline and isDirty stays false.
C8_CancelRestores ==
  /\ [][ClickCancelEditing =>
          /\ ~isEditing'
          /\ draft' = baseline
          /\ baseline' = baseline
          /\ ~isDirty']_vars
  /\ [][(ClickEdit /\ ~isDirty) =>
          /\ isEditing'
          /\ draft' = draft
          /\ baseline' = baseline
          /\ ~isDirty']_vars

\* Idle after a cancel that dropped edits made while the load was ignored
C8_Witness ==
  /\ TabShown
  /\ ~isEditing
  /\ draft = baseline
  /\ backend # baseline
  /\ userId # NoUser
  /\ authPending = 0
  /\ loadPending = 0
  /\ toast = "none"

\* the tooltip box lies inside the container on the x / y axis
FitsX == tooltip.x + layout.w <= layout.cw
FitsY == tooltip.y + layout.h <= layout.ch

\* a pointer move handled while the tooltip is open
MoveHandled == MouseMove /\ tooltip.open /\ mapRoot

\* C9 (as amended): after a pointer move handled while the tooltip is open,
\* x and y are at least the margin 4, and the box ends inside the container
\* on each axis on which the container is at least the box plus the margin.
C9_TooltipClamped ==
  [][MoveHandled =>
       /\ tooltip'.x >= 4
       /\ tooltip'.y >= 4
       /\ (layout.cw >= layout.w + 4) => FitsX'
       /\ (layout.ch >= layout.h + 4) => FitsY']_vars

\* C9 as stated: the box ends inside the container for every size
C9_AlwaysInside ==
  [][MoveHandled =>
       /\ tooltip'.x >= 4
       /\ tooltip'.y >= 4
       /\ FitsX'
       /\ FitsY']_vars

\* the clamp has pulled the tooltip back from the right edge
C9_Witness ==
  /\ tooltip.open
  /\ layout.cw = 18
  /\ layout.w = 6
  /\ tooltip.x = 8
  /\ tooltip.y >= 4

\* shape i of the injected document carries a region code
Coded(i) == ShapeCode(DocShapes(innerHTML)[i]) # <<>>

\* the region of shape i has the selected status
HasSelectedStatus(i) ==
  \E k \in 1..Len(mockStates) :
    /\ mockStates[k].code = ShapeCode(DocShapes(innerHTML)[i])
    /\ mockStates[k].status = selectedStatus

\* the opacity rule on shape i
OpacityRule(i) ==
  IF selectedStatus = "all" \/ HasSelectedStatus(i)
    THEN style[i].opacity = OpacityFull
    ELSE 0 < style[i].opacity /\ style[i].opacity < OpacityFull

\* C10 (as amended): after a coloring pass every shape that carries a region
\* code is at opacity 1 when the filter is 'all' or its region has the
\* selected status, and strictly between 0 and 1 otherwise (shapes with no
\* Region record included); no shape is fully hidden.
C10_Opacity ==
  /\ \A i \in 1..Len(style) : Coded(i) => OpacityRule(i)
  /\ \A i \in 1..Len(style) : style[i].opacity > 0

\* C10 as stated: the rule on every shape
C10_EveryShape == \A i \in 1..Len(style) : OpacityRule(i)

\* a filter is selected, a shape without a Region record is dimmed, a shape
\* of the selected status is not
C10_Witness ==
  /\ selectedStatus = "low"
  /\ Len(style) = 5
  /\ style[3].opacity = OpacityDimmed
  /\ \E i \in 1..Len(style) : HasSelectedStatus(i) /\ style[i].opacity = OpacityFull

\* a call of createOrder in the specification of the order list
ListOrderCall == CreateListOrder \/ ClickListCreate

\* C11: a createOrder whose window is not 30 days (7, 14 or 60) leaves the
\* 30-day forecast of every region unchanged whatever the sales forecast is;
\* a forecast changes only through an accepted 30-day order on the matching
\* region, by the (rounded) sales forecast.
C11_WindowFrame ==
  /\ [][(ListOrderCall /\ Number(orderForm.days) # Whole(30)) =>
          \A k \in 1..Len(mockStates) :
            mockStates'[k].salesNext30Days = mockStates[k].salesNext30Days]_vars
  /\ [][\A k \in 1..Len(mockStates) :
          mockStates'[k].salesNext30Days # mockStates[k].salesNext30Days =>
            /\ ListOrderCall
            /\ Len(orders') = Len(orders) + 1
            /\ Number(orderForm.days) = Whole(30)
            /\ k \in MatchingRegions(orderForm)
            /\ mockStates'[k].salesNext30Days =
                 mockStates[k].salesNext30Days
                   + MathRound(Number(orderForm.salesForecast))]_vars

\* a 30-day order with forecast 2, then a 60-day order: the forecast of the
\* region went from 5 to 7 and stayed there
C11_Witness ==
  /\ Len(orders) = 2
  /\ orders[2].days = 30
  /\ orders[2].salesForecast = 2
  /\ orders[1].days = 60
  /\ orders[1].stateCode = CA
  /\ \E k \in 1..Len(mockStates) :
       mockStates[k].code = CA /\ mockStates[k].salesNext30Days = 7

\* C12 as stated: after teardown no handler bound by the widget is attached.
C12_HandlersDetached == phase = "unmounted" => listeners = {}

\* every shape of the injected document has its enter and leave handler, the
\* svg its move handler
HandlersBound ==
  /\ \A i \in 1..Len(DocShapes(innerHTML)) :
       <<i, "mouseenter">> \in listeners /\ <<i, "mouseleave">> \in listeners
  /\ <<0, "mousemove">> \in listeners

\* every coded shape carries the stroke and a fill of a coloring pass
ColorsApplied ==
  /\ Len(style) = Len(DocShapes(innerHTML))
  /\ \A i \in 1..Len(style) :
       Coded(i) =>
         /\ style[i].stroke = "#0b0b0b"
         /\ style[i].fill \in {"#22c55e", "#eab308", "#ef4444", "#e5e7eb"}

\* the container holds a document, bound and colored
MapLoaded ==
  /\ innerHTML \in {RemoteSvg, CachedSvg, usSvgFallbackRaw}
  /\ HandlersBound
  /\ ColorsApplied

\* C13: with the container present at mount and the widget mounted, once the
\* fetch has settled (any outcome) the container holds a document with
\* handlers bound and colors applied and the load has raised no error; and
\* from the mount on this is eventually so, unless the widget is torn down.
C13_AlwaysRenders ==
  /\ []((mapRoot /\ phase = "mounted" /\ fetched # "pending") =>
          (MapLoaded /\ ~mapError /\ runPc = "done"))
  /\ ((mapRoot /\ phase = "mounted") ~> (MapLoaded \/ phase = "unmounted"))

C13_Witness ==
  /\ phase = "mounted"
  /\ fetched = "status"
  /\ innerHTML = usSvgFallbackRaw
  /\ MapLoaded
  /\ ~mapError

\* C14: when the fetch succeeds the injected document is the fetched text
\* whether or not the cache write works; a working write leaves exactly the
\* fetched text in the cache, a failing one leaves the cache as it was, and
\* the load ends the same way.
C14_SuccessPath ==
  [][(FetchSettles /\ fetched' = "ok" /\ mapRoot) =>
       /\ innerHTML' = RemoteSvg
       /\ cache' = (IF storage.writeOk THEN RemoteSvg ELSE cache)
       /\ runPc' = "done"
       /\ ~mapError'
       /\ MapLoaded']_vars

\* the write failed, the cache kept its older document, the remote one is shown
C14_Witness ==
  /\ fetched = "ok"
  /\ ~storage.writeOk
  /\ cache = CachedSvg
  /\ innerHTML = RemoteSvg
  /\ runPc = "done"

\* C15 as stated: the Create button pressed on input that fails validation
\* leaves the form open and its values as typed.
C15_FormStaysOpen ==
  [][(ClickCreate /\ InvalidInput(orderForm)) =>
       (createOrderOpen' /\ orderForm' = orderForm)]_vars

\* the Region records whose code is the code of shape i
RegionsOfShape(i) ==
  {k \in 1..Len(mockStates) :
     /\ Coded(i)
     /\ mockStates[k].code = ShapeCode(DocShapes(innerHTML)[i])}

\* C16: pointer-enter on a shape with a Region record opens the tooltip bound
\* to that record; pointer-enter on a shape without one changes nothing;
\* pointer-leave closes the tooltip and clears its region; a pointer move
\* while the tooltip is closed leaves its position as it was.
C16_TooltipProtocol ==
  /\ [][\A i \in 1..Len(DocShapes(innerHTML)) :
          (MouseEnter /\ handleStateEnter(i)) =>
            IF RegionsOfShape(i) # {}
              THEN /\ tooltip'.open
                   /\ tooltip'.state \in RegionsOfShape(i)
                   /\ tooltip'.x = tooltip.x /\ tooltip'.y = tooltip.y
              ELSE tooltip' = tooltip]_vars
  /\ [][MouseLeave => (~tooltip'.open /\ tooltip'.state = 0)]_vars
  /\ [][(MouseMove /\ ~tooltip.open) =>
          (tooltip'.x = tooltip.x /\ tooltip'.y = tooltip.y)]_vars
  /\ [](tooltip.open => tooltip.state # 0)

\* the tooltip is open on Florida
C16_Witness ==
  /\ tooltip.open
  /\ tooltip.state # 0
  /\ mockStates[tooltip.state].code = FL

\* shape i is visible under the selected filter
VisibleUnderFilter(i) ==
  selectedStatus = "all" \/ HasSelectedStatus(i)

\* the shapes the label group should hold when getBBox threw on `failed`
RegionLabels(failed) ==
  SelectSeq([i \in 1..Len(DocShapes(innerHTML)) |-> i],
            LAMBDA i : /\ VisibleUnderFilter(i)
                       /\ RegionsOfShape(i) # {}
                       /\ i \notin failed)

\* C17 as stated: after a coloring pass the document holds exactly one label
\* group, and the group labels a shape iff the shape is visible under the
\* filter, its code has a Region record and its bounding box was computed.
C17_LabelsOnlyRegions ==
  (runPc = "done" /\ HasSvg(innerHTML)) =>
    /\ Len(labelGroups) = 1
    /\ \E failed \in SUBSET FragileShapes :
         labelGroups[1].texts = RegionLabels(failed)

\* C18 as stated: whenever the profile draft is Idle the draft equals the
\* baseline.
C18_IdleIsClean == ~isEditing => draft = baseline

\* C19: the order list only grows, and only by createOrder: a step that
\* changes the list is a createOrder call that puts one new order at the head
\* and leaves the orders already there, in their order, below it.
C19_AppendOnly ==
  [][orders' # orders =>
       /\ ListOrderCall
       /\ ~InvalidInput(orderForm)
       /\ Len(orders') = Len(orders) + 1
       /\ Tail(orders') = orders
       /\ orders'[1].stateCode = ToUpperCase(Trim(orderForm.stateCode))]_vars

\* two orders, the later one at the head
C19_Witness ==
  /\ Len(orders) = 2
  /\ orders[1].days = 14
  /\ orders[2].days = 30
  /\ orders[1].stateCode = CA

\* C20 as stated: the orders of the list have pairwise distinct ids.
C20_DistinctIds ==
  \A i, j \in 1..Len(orders) : i # j => orders[i].id # orders[j].id

\* C21 as stated: in every reachable state each Region's status is the one
\* the status rule gives: active if currentVolume >= targetVolume, else low.
C21_StatusAgrees ==
  \A k \in 1..Len(mockStates) :
    mockStates[k].status =
      (IF mockStates[k].currentVolume >= mockStates[k].targetVolume
         THEN "active" ELSE "low")

\* C22: no Region is ever inactive: every status is active or low.
C22_NeverInactive ==
  \A k \in 1..Len(mockStates) : mockStates[k].status \in {"active", "low"}

\* createOrder has written the status of California: an order of 3 took it
\* to 48 of 50
C22_Witness ==
  /\ Len(orders) = 1
  /\ orders[1].stateCode = CA
  /\ orders[1].volume = 3
  /\ mockStates[1].currentVolume = 48
  /\ mockStates[1].status = "low"

\* C23 as stated: when the widget was torn down while the fetch was in flight
\* (nothing had been injected), the fetch's completion injects no document,
\* binds no handler and raises no error.
C23_DiscardsQuietly ==
  (phase = "unmounted" /\ fetched # "pending" /\ runPc # "done") =>
    (innerHTML = NoDoc /\ listeners = {} /\ ~mapError)

\* C24 as stated: at most one commit is in flight, and while one is
\* outstanding no field edit, no cancelEditing and no further submit happens.
C24_CommitSerialized ==
  [][/\ Len(inflight') <= 1
     /\ inflight # <<>> =>
          ~(EditField \/ ClickCancelEditing \/ (OnSubmit /\ inflight' # inflight))
    ]_vars

\* the last step of a tab's mount handler: after auth.init() when there is no
\* owner id, else after loadProfile()
MountHandlerEnds == (MountAuthDone /\ userId = NoUser) \/ MountLoadDone

C26_UnknownRegion ==
  [][((CreateOrder \/ ClickCreate)
        /\ ~InvalidInput(orderForm)
        /\ \A k \in 1..Len(mockStates) :
             mockStates[k].code # ToUpperCase(Trim(orderForm.stateCode))) =>
       /\ Len(orders') = Len(orders) + 1
       /\ Tail(orders') = orders
       /\ orders'[1].stateCode = ToUpperCase(Trim(orderForm.stateCode))
       /\ ~createOrderOpen'
       /\ orderForm' = DefaultOrderForm
       /\ mockStates' = mockStates]_vars

\* an order for ZZ is in the list, the form is closed and reset, the regions
\* are the initial ones
C26_Witness ==
  /\ Len(orders) = 1
  /\ orders[1].stateCode = <<"Z", "Z">>
  /\ ~createOrderOpen
  /\ orderForm = DefaultOrderForm
  /\ mockStates = InitialMockStates

\* C27: every Region satisfies currentVolume = fulfilled + pending, and so
\* the page totals satisfy totalVolume = totalFulfilled + totalPending.
C27_VolumeSplit ==
  /\ \A k \in 1..Len(mockStates) :
       mockStates[k].currentVolume =
         mockStates[k].fulfilled + mockStates[k].pending
  /\ totalVolume = totalFulfilled + totalPending

\* an order of 5 on California: 50 = 40 + 10, and the totals have moved
C27_Witness ==
  /\ Len(orders) = 1
  /\ orders[1].volume = 5
  /\ mockStates[1].currentVolume = 50
  /\ mockStates[1].fulfilled = 40
  /\ mockStates[1].pending = 10
  /\ totalVolume = ReduceSum(InitialMockStates, "currentVolume") + 5
  /\ totalPending = ReduceSum(InitialMockStates, "pending") + 5

\* C28 as stated: no step changes the status of a Region from active to low.
C28_StatusMonotone ==
  [][\A k \in 1..Len(mockStates) :
       mockStates[k].status = "active" => mockStates'[k].status # "low"]_vars

\* a step in which a load() ends in its catch block
LoadFailed ==
  /\ AuthInitSettles \/ QuerySettles
  /\ Len(loads') < Len(loads)
  /\ error' # NoError

\* a step in which a load() starts
LoadStarted == (RetainersMounted \/ ClickRefresh) /\ Len(loads') > Len(loads)

C30_RoleScoped ==
  \A i \in 1..Len(loads) :
    loads[i].pc = "query" =>
      /\ loads[i].filter = NoFilter => role \in {"admin", "agent"}
      /\ role = "lawyer" => loads[i].filter = <<"assigned_attorney_id", userId>>
      /\ role = NoRole =>
           (loads[i].filter # NoFilter /\ loads[i].filter[1] = "lead_vendor")

====
